---- MODULE Spec2Model ----
(***************************************************************************)
(* Model of searx/botdetection/link_token.py: the rotating CSS link token  *)
(* and the per-client ping records, both kept in a shared redis store.     *)
(*                                                                         *)
(* The store is a map from keys to (value, remaining TTL).  Time advances  *)
(* in steps of TimeUnit seconds; a key whose remaining TTL is used up is   *)
(* removed by the store.  The functions of the module run step by step:    *)
(* one step is one access to shared state, a call of redisdb.client() or   *)
(* one command on the redis client, and the steps of calls served by       *)
(* different workers, the expiry of keys and outages of the redis DB       *)
(* interleave.                                                             *)
(***************************************************************************)
EXTENDS Integers, Sequences, FiniteSets, TLC

(***************************************************************************)
(* Program constants.                                                      *)
(***************************************************************************)
TOKEN_LIVE_TIME == 600

PING_LIVE_TIME == 3600

PING_KEY == "SearXNG_limiter.ping"

TOKEN_KEY == "SearXNG_limiter.token"

\* the value get_token returns when there is no redis DB
Fallback == <<"1", "2", "3", "4", "5", "6", "7", "8">>

\* string.ascii_lowercase + string.digits
Alphabet ==
  << "a", "b", "c", "d", "e", "f", "g", "h", "i", "j", "k", "l", "m",
     "n", "o", "p", "q", "r", "s", "t", "u", "v", "w", "x", "y", "z",
     "0", "1", "2", "3", "4", "5", "6", "7", "8", "9" >>

\* range(16): the number of characters of a generated token
TokenLen == 16

(***************************************************************************)
(* Bounds of the model.                                                    *)
(***************************************************************************)
\* seconds that pass in one Tick: the token outlives one Tick and not two,
\* a ping outlives seven
TimeUnit == 450

\* number of distinct outcomes of the random generator that are explored
NumDraws == 2

(***************************************************************************)
(* Strings and bytes.  A Python str is a sequence of one-character         *)
(* strings, a bytes value a sequence of integers.                          *)
(***************************************************************************)
\* code points of the characters of Alphabet: a-z are 97..122, 0-9 are 48..57
CodePoints ==
  [c \in {Alphabet[i] : i \in 1..Len(Alphabet)} |->
     LET i == CHOOSE j \in 1..Len(Alphabet) : Alphabet[j] = c
     IN  IF i <= 26 THEN 96 + i ELSE 48 + (i - 27)]

Ord(c) == CodePoints[c]

\* character of a byte in the ASCII ranges a-z and 0-9
Chr(b) == IF b >= 97 THEN Alphabet[b - 96] ELSE Alphabet[(b - 48) + 27]

\* redis stores a str value as its UTF-8 bytes
Encode(s) == [i \in 1..Len(s) |-> Ord(s[i])]

\* token.decode('UTF-8')
Decode(b) == [i \in 1..Len(b) |-> Chr(b[i])]

\* redis stores the integer 1 as the bytes b"1"
PingMarker == <<49>>

\* one outcome of ''.join(random.choice(Alphabet) for _ in range(16))
Draw(s) == [i \in 1..TokenLen |-> Alphabet[((s * i + s + i) % Len(Alphabet)) + 1]]

\* the outcomes of the random generator that are explored
RandomTokens == { Draw(s) : s \in 1..NumDraws }

\* tokens a client may put into the URL /client<token>.css
CandidateTokens ==
  RandomTokens \cup { Fallback, SubSeq(Draw(1), 1, TokenLen - 1) }

(***************************************************************************)
(* Requests.                                                               *)
(***************************************************************************)
NoHeaders == [n \in {} |-> ""]

BrowserHeaders ==
  [n \in {"Accept-Language", "User-Agent"} |->
     IF n = "Accept-Language" THEN "en-US" ELSE "TestBot/1.0"]

Requests ==
  { [ip |-> "203.0.113.7", headers |-> BrowserHeaders],
    [ip |-> "203.0.113.9", headers |-> BrowserHeaders],
    [ip |-> "2001:db8::1", headers |-> NoHeaders] }

\* request.headers.get(name, default)
HeaderGet(headers, name, default) ==
  IF name \in DOMAIN headers THEN headers[name] ELSE default

\* get_real_ip(request)
get_real_ip(request) == request.ip

\* get_network(real_ip, cfg): the configured prefix the address belongs to
get_network(real_ip) ==
  IF real_ip \in {"203.0.113.7", "203.0.113.9"}
  THEN [compressed |-> "203.0.113.0/24"]
  ELSE [compressed |-> "2001:db8::/48"]

\* secret_hash(name): a keyed hash, taken to be injective
secret_hash(name) == "hmac<" \o name \o ">"

\* get_ping_key that leaves the User-Agent out of the key
get_ping_key_NoUserAgent(network, request) ==
  PING_KEY \o "["
    \o secret_hash(network.compressed
                     \o HeaderGet(request.headers, "Accept-Language", ""))
    \o "]"

get_ping_key(network, request) ==
  PING_KEY \o "["
    \o secret_hash(network.compressed
                     \o HeaderGet(request.headers, "Accept-Language", "")
                     \o HeaderGet(request.headers, "User-Agent", ""))
    \o "]"

\* the ping key of a request, with the network resolved as ping does
KeyOf(request) == get_ping_key(get_network(get_real_ip(request)), request)

PingKeys == { KeyOf(r) : r \in Requests }

Keys == {TOKEN_KEY} \cup PingKeys

(***************************************************************************)
(* The redis store.                                                        *)
(***************************************************************************)
Absent == [present |-> FALSE, val |-> << >>, ttl |-> 0]

\* redis_client.get(key): the bytes stored, or None
RedisGet(d, key) == [some |-> d[key].present, val |-> d[key].val]

\* redis_client.set(key, value, ex=ex)
RedisSet(d, key, bytes, ex) ==
  [d EXCEPT ![key] = [present |-> TRUE, val |-> bytes, ttl |-> ex]]

\* Python truth value of the result of a get: None and b"" are false
Truthy(got) == got.some /\ Len(got.val) > 0

\* the store after dt seconds: keys whose TTL is used up are removed
Expire(d, dt) ==
  [k \in DOMAIN d |->
     IF d[k].present /\ d[k].ttl > dt
     THEN [d[k] EXCEPT !.ttl = @ - dt]
     ELSE Absent]

\* redisdb.client(): the client, or None when there is no redis DB
client(reach) == reach

(***************************************************************************)
(* The functions of link_token.py, step by step.  A worker serves one call *)
(* at a time; its frame rec holds                                          *)
(*   pc          the position of the call:                                 *)
(*                 p_client  ping, line 103                                *)
(*                 g_client  get_token, line 145                           *)
(*                 g_get     get_token, line 150                           *)
(*                 g_set     get_token, line 155                           *)
(*                 g_ret     get_token, lines 149 and 156: the token is    *)
(*                           obtained (line 145 found no redis DB, or the  *)
(*                           command of line 150 or 155 has taken effect   *)
(*                           at the store), get_token has yet to return it *)
(*                 p_set     ping, line 115                                *)
(*                 s_client  is_suspicious, line 79                        *)
(*                 s_get     is_suspicious, line 84                        *)
(*                 s_set     is_suspicious, line 89                        *)
(*                 done      the call has returned                         *)
(*                 raised    an exception has left the call                *)
(*   op          the function called from outside                          *)
(*   request, token, renew   its arguments                                 *)
(*   cur         get_token's local variable token (lines 150-156)          *)
(*   token_ret, valid, suspicious   what get_token, token_is_valid and     *)
(*               is_suspicious returned                                    *)
(*   quiet, held  (history) see Unquiet and Unheld below                   *)
(* A step operator takes the frame, the store and whether the redis DB is  *)
(* available, and yields the frame and the store after the step.           *)
(***************************************************************************)
NoRequest == [ip |-> "", headers |-> NoHeaders]

\* a worker that serves no call
IdleProc ==
  [pc |-> "idle", op |-> "None", request |-> NoRequest, token |-> << >>,
   renew |-> FALSE, cur |-> << >>, token_ret |-> << >>, valid |-> FALSE,
   suspicious |-> FALSE, quiet |-> FALSE, held |-> FALSE]

\* a command on a redis client raises while the redis DB is unavailable
Raises(reach) == ~reach

\* the exception leaves the call: there is no try/except in the module
Raised(rec) == [IdleProc EXCEPT !.pc = "raised", !.op = rec.op]

\* the call returns; the frame is gone, the caller has the return value
\* (of the arguments, the history keeps the request of an undisturbed call)
Returned(rec) ==
  [IdleProc EXCEPT !.pc = "done", !.op = rec.op,
                   !.request = IF rec.quiet THEN rec.request ELSE NoRequest,
                   !.quiet = rec.quiet, !.held = rec.held]

ReturnedToken(rec, token) == [Returned(rec) EXCEPT !.token_ret = token]

ReturnedValid(rec, b) == [Returned(rec) EXCEPT !.valid = b]

ReturnedBool(rec, b) == [Returned(rec) EXCEPT !.suspicious = b]

Step(rec, d) == [rec |-> rec, db |-> d]

\* token_is_valid that accepts every beginning of the current token
GotToken_StartsWith(rec, token) ==
  LET valid == /\ Len(rec.token) <= Len(token)
               /\ rec.token = SubSeq(token, 1, Len(rec.token))
  IN  CASE rec.op = "get_token"      -> ReturnedToken(rec, token)
        [] rec.op = "token_is_valid" -> ReturnedValid(rec, valid)
        [] OTHER ->
             IF ~valid
             THEN Returned(rec)
             ELSE [rec EXCEPT !.pc = "p_set", !.cur = << >>]

\* get_token returns token: to its caller (line 149, 152, 156), into
\* token_is_valid (line 134), or through token_is_valid into ping (lines
\* 106-107)
GotToken(rec, token) ==
  CASE rec.op = "get_token"      -> ReturnedToken(rec, token)
    [] rec.op = "token_is_valid" -> ReturnedValid(rec, rec.token = token)
    [] OTHER ->
         IF ~(rec.token = token)
         THEN Returned(rec)
         ELSE [rec EXCEPT !.pc = "p_set", !.cur = << >>]

\* get_token, lines 145-149: without a redis DB the token is '12345678'
Step_g_client(rec, d, reach) ==
  IF ~client(reach)
  THEN Step([rec EXCEPT !.pc = "g_ret", !.cur = Fallback], d)
  ELSE Step([rec EXCEPT !.pc = "g_get"], d)

\* get_token that returns a token of its own instead of the stored one
Step_g_get_IgnoresStored(rec, d, reach, draw) ==
  IF Raises(reach)
  THEN Step(Raised(rec), d)
  ELSE LET token == RedisGet(d, TOKEN_KEY)
       IN  IF Truthy(token)
           THEN Step([rec EXCEPT !.pc = "g_ret", !.cur = draw], d)
           ELSE Step([rec EXCEPT !.pc = "g_set", !.cur = draw], d)

\* get_token that generates a token even when one is stored
Step_g_get_AlwaysNew(rec, d, reach, draw) ==
  IF Raises(reach)
  THEN Step(Raised(rec), d)
  ELSE Step([rec EXCEPT !.pc = "g_set", !.cur = draw], d)

\* get_token, lines 150-154: the get takes effect at the store; a token
\* found is on its way back, otherwise one is generated
Step_g_get(rec, d, reach, draw) ==
  IF Raises(reach)
  THEN Step(Raised(rec), d)
  ELSE LET token == RedisGet(d, TOKEN_KEY)
       IN  IF Truthy(token)
           THEN Step([rec EXCEPT !.pc = "g_ret", !.cur = Decode(token.val)],
                     d)
           ELSE Step([rec EXCEPT !.pc = "g_set", !.cur = draw], d)

\* get_token whose set leaves a token that is already stored alone
Step_g_set_IfAbsent(rec, d, reach) ==
  IF Raises(reach)
  THEN Step(Raised(rec), d)
  ELSE Step([rec EXCEPT !.pc = "g_ret"],
            IF Truthy(RedisGet(d, TOKEN_KEY)) THEN d
            ELSE RedisSet(d, TOKEN_KEY, Encode(rec.cur), TOKEN_LIVE_TIME))

\* get_token that clears the ping records when it stores a new token
Step_g_set_DropsPings(rec, d, reach) ==
  IF Raises(reach)
  THEN Step(Raised(rec), d)
  ELSE Step([rec EXCEPT !.pc = "g_ret"],
            [k \in DOMAIN d |->
               IF k = TOKEN_KEY
               THEN [present |-> TRUE, val |-> Encode(rec.cur),
                     ttl |-> TOKEN_LIVE_TIME]
               ELSE Absent])

\* get_token that stores the token for as long as a ping
Step_g_set_PingLiveTime(rec, d, reach) ==
  IF Raises(reach)
  THEN Step(Raised(rec), d)
  ELSE Step([rec EXCEPT !.pc = "g_ret"],
            RedisSet(d, TOKEN_KEY, Encode(rec.cur), PING_LIVE_TIME))

\* get_token, line 155: the set takes effect at the store
Step_g_set(rec, d, reach) ==
  IF Raises(reach)
  THEN Step(Raised(rec), d)
  ELSE Step([rec EXCEPT !.pc = "g_ret"],
            RedisSet(d, TOKEN_KEY, Encode(rec.cur), TOKEN_LIVE_TIME))

\* get_token, lines 149 and 156: get_token returns the token, to its caller
\* in token_is_valid (lines 132-134) and ping (lines 106-107) as well
Step_g_ret(rec, d) == Step(GotToken(rec, rec.cur), d)

\* ping, lines 103-105
Step_p_client(rec, d, reach) ==
  IF ~client(reach)
  THEN Step(Returned(rec), d)
  ELSE Step([rec EXCEPT !.pc = "g_client"], d)

\* ping that stores the ping key for as long as a token
Step_p_set_TokenLiveTime(rec, d, reach) ==
  IF Raises(reach)
  THEN Step(Raised(rec), d)
  ELSE LET real_ip  == get_real_ip(rec.request)
           network  == get_network(real_ip)
           ping_key == get_ping_key(network, rec.request)
       IN  Step(Returned(rec),
                RedisSet(d, ping_key, PingMarker, TOKEN_LIVE_TIME))

\* ping that returns without storing the ping key
Step_p_set_NoRecord(rec, d, reach) ==
  IF Raises(reach) THEN Step(Raised(rec), d) ELSE Step(Returned(rec), d)

\* ping, lines 109-115
Step_p_set(rec, d, reach) ==
  IF Raises(reach)
  THEN Step(Raised(rec), d)
  ELSE LET real_ip  == get_real_ip(rec.request)
           network  == get_network(real_ip)
           ping_key == get_ping_key(network, rec.request)
       IN  Step(Returned(rec),
                RedisSet(d, ping_key, PingMarker, PING_LIVE_TIME))

\* is_suspicious that rates every request suspicious without a redis DB
Step_s_client_FailClosed(rec, d, reach) ==
  IF ~client(reach)
  THEN Step(ReturnedBool(rec, TRUE), d)
  ELSE Step([rec EXCEPT !.pc = "s_get"], d)

\* is_suspicious, lines 79-81
Step_s_client(rec, d, reach) ==
  IF ~client(reach)
  THEN Step(ReturnedBool(rec, FALSE), d)
  ELSE Step([rec EXCEPT !.pc = "s_get"], d)

\* is_suspicious that takes a missing ping for a found one
Step_s_get_MissingIsFine(rec, d, reach) ==
  IF Raises(reach)
  THEN Step(Raised(rec), d)
  ELSE IF rec.renew
       THEN Step([rec EXCEPT !.pc = "s_set"], d)
       ELSE Step(ReturnedBool(rec, FALSE), d)

\* is_suspicious, lines 83-88 and 92; the caller passes the network of the
\* request
Step_s_get(rec, d, reach) ==
  IF Raises(reach)
  THEN Step(Raised(rec), d)
  ELSE LET network  == get_network(get_real_ip(rec.request))
           ping_key == get_ping_key(network, rec.request)
       IN  IF ~Truthy(RedisGet(d, ping_key))
           THEN Step(ReturnedBool(rec, TRUE), d)
           ELSE IF rec.renew
                THEN Step([rec EXCEPT !.pc = "s_set"], d)
                ELSE Step(ReturnedBool(rec, FALSE), d)

\* is_suspicious that renews every ping record of the store
Step_s_set_RenewsAll(rec, d, reach) ==
  IF Raises(reach)
  THEN Step(Raised(rec), d)
  ELSE Step(ReturnedBool(rec, FALSE),
            [k \in DOMAIN d |->
               IF k # TOKEN_KEY /\ d[k].present
               THEN [d[k] EXCEPT !.ttl = PING_LIVE_TIME]
               ELSE d[k]])

\* is_suspicious that never renews the ping
Step_s_set_NeverRenews(rec, d, reach) ==
  IF Raises(reach)
  THEN Step(Raised(rec), d)
  ELSE Step(ReturnedBool(rec, FALSE), d)

\* is_suspicious, lines 89-92
Step_s_set(rec, d, reach) ==
  IF Raises(reach)
  THEN Step(Raised(rec), d)
  ELSE LET network  == get_network(get_real_ip(rec.request))
           ping_key == get_ping_key(network, rec.request)
       IN  Step(ReturnedBool(rec, FALSE),
                RedisSet(d, ping_key, PingMarker, PING_LIVE_TIME))

(***************************************************************************)
(* State.                                                                  *)
(*   reachable  redisdb.client() yields a client                           *)
(*   db         the redis store: key -> value and remaining TTL            *)
(*   proc       per worker, the frame of the call it serves                *)
(*   age        (history) seconds since the last write of each ping key,   *)
(*              -1 if it was never written; stops counting at              *)
(*              PING_LIVE_TIME                                             *)
(*   expired    (history, SpecToken) the token that expired last, << >> if *)
(*              none did                                                   *)
(*   probe      two calls of get_ping_key and their keys (SpecKey)         *)
(***************************************************************************)
VARIABLES reachable, db, proc, age, expired, probe

vars == <<reachable, db, proc, age, expired, probe>>

HasToken(d) == d[TOKEN_KEY].present

HasPing(d, key) == d[key].present

\* the number of workers that serve get_token calls at the same time in
\* SpecRace
NumProcs == 2

Procs == 1 .. NumProcs

\* the two workers of the other specifications
Pair == {1, 2}

\* no key derivation under examination
NoProbe == [pc |-> "none"]

Init ==
  /\ reachable \in BOOLEAN
  /\ db = [k \in Keys |-> Absent]
  /\ proc = [p \in Procs |-> IdleProc]
  /\ age = [k \in PingKeys |-> -1]
  /\ expired = << >>
  /\ probe = NoProbe

\* worker p is free to serve the next call
Free(p) == proc[p].pc \in {"idle", "done", "raised"}

\* History of a frame.
\*   quiet  since get_token returned to the worker, the token has not
\*          expired and the redis DB has not become available or unavailable
\*   held   since get_token obtained its token (the get of line 150 or the
\*          set of line 155 took effect at the store, or line 145 found no
\*          redis DB), the token has not expired, the redis DB has not
\*          become available or unavailable and no other call has set the
\*          token key
\* For a ping, both count from the start of the call, if the redis DB is
\* then available and holds the token the ping is called with.  The call
\* the worker makes next with the returned token (token_is_valid) or for the
\* same request (is_suspicious) keeps the history.
Unquiet(rec) ==
  [rec EXCEPT !.quiet = FALSE, !.held = FALSE,
              !.request = IF rec.pc = "done" THEN NoRequest ELSE rec.request]

Unheld(rec) == [rec EXCEPT !.held = FALSE]

\* the history of a get_token call after a step that left it with frame
\* rec: held starts when the token is obtained, quiet when get_token returns
Mark(rec) ==
  IF rec.op # "get_token" THEN rec
  ELSE IF rec.pc = "g_ret" THEN [rec EXCEPT !.held = TRUE]
  ELSE IF rec.pc = "done" THEN [rec EXCEPT !.quiet = TRUE]
  ELSE rec

\* the frames after worker p took a step that left it with frame rec;
\* wrote tells whether the step set the token key
After(p, rec, wrote) ==
  [q \in Procs |->
     IF q = p THEN Mark(rec)
     ELSE IF wrote THEN Unheld(proc[q]) ELSE proc[q]]

\* the token stored in d, << >> if there is none
Current(d) == IF HasToken(d) THEN Decode(d[TOKEN_KEY].val) ELSE << >>

\* worker p has just served an undisturbed ping for the network and the
\* headers of request
Follows(p, request) ==
  /\ proc[p].pc = "done"
  /\ proc[p].op = "ping"
  /\ proc[p].quiet
  /\ KeyOf(proc[p].request) = KeyOf(request)

\* the outcomes of the random generator a step at line 150 can tell apart:
\* get_token generates a token only when it finds none stored
Draws == IF ~Raises(reachable) /\ ~Truthy(RedisGet(db, TOKEN_KEY))
         THEN RandomTokens ELSE {Draw(1)}

\* the value get_token has just returned to worker p, if any
Own(p) ==
  IF proc[p].pc = "done" /\ proc[p].op = "get_token"
  THEN {proc[p].token_ret} ELSE {}

(***************************************************************************)
(* Actions.  W is the set of workers that may take the step, R and T the   *)
(* requests and tokens that calls are made with.                           *)
(***************************************************************************)
Begin_get_token(W) ==
  \E p \in W :
    /\ Free(p)
    /\ proc' = [proc EXCEPT ![p] =
                  [IdleProc EXCEPT !.pc = "g_client", !.op = "get_token"]]
    /\ UNCHANGED <<reachable, db, age, expired, probe>>

\* token_is_valid(token), with a token of T or with the value that get_token
\* has just returned to the worker
Begin_token_is_valid(W, T) ==
  \E p \in W :
    /\ Free(p)
    /\ \E token \in T \cup Own(p) :
         proc' = [proc EXCEPT ![p] =
                    [IdleProc EXCEPT
                       !.pc = "g_client", !.op = "token_is_valid",
                       !.token = token,
                       !.quiet = token \in Own(p) /\ proc[p].quiet,
                       !.held = token \in Own(p) /\ proc[p].held]]
    /\ UNCHANGED <<reachable, db, age, expired, probe>>

Begin_ping(W, R, T) ==
  \E p \in W, request \in R, token \in T :
    /\ Free(p)
    /\ LET ref == reachable /\ token = Current(db)
       IN  proc' = [proc EXCEPT ![p] =
                      [IdleProc EXCEPT !.pc = "p_client", !.op = "ping",
                                       !.request = request, !.token = token,
                                       !.quiet = ref, !.held = ref]]
    /\ UNCHANGED <<reachable, db, age, expired, probe>>

Begin_is_suspicious(W, R) ==
  \E p \in W, request \in R, renew \in BOOLEAN :
    /\ Free(p)
    /\ proc' = [proc EXCEPT ![p] =
                  [IdleProc EXCEPT !.pc = "s_client", !.op = "is_suspicious",
                                   !.request = request, !.renew = renew,
                                   !.quiet = Follows(p, request),
                                   !.held = Follows(p, request)
                                            /\ proc[p].held]]
    /\ UNCHANGED <<reachable, db, age, expired, probe>>

Do_g_client(W) ==
  \E p \in W :
    /\ proc[p].pc = "g_client"
    /\ LET res == Step_g_client(proc[p], db, reachable)
       IN  /\ proc' = After(p, res.rec, FALSE)
           /\ db' = res.db
    /\ UNCHANGED <<reachable, age, expired, probe>>

Do_g_get(W) ==
  \E p \in W :
    /\ proc[p].pc = "g_get"
    /\ \E draw \in Draws :
         LET res == Step_g_get(proc[p], db, reachable, draw)
         IN  /\ proc' = After(p, res.rec, FALSE)
             /\ db' = res.db
    /\ UNCHANGED <<reachable, age, expired, probe>>

Do_g_set(W) ==
  \E p \in W :
    /\ proc[p].pc = "g_set"
    /\ LET res   == Step_g_set(proc[p], db, reachable)
           wrote == res.rec.pc # "raised"
       IN  /\ proc' = After(p, res.rec, wrote)
           /\ db' = res.db
    /\ UNCHANGED <<reachable, age, expired, probe>>

Do_g_ret(W) ==
  \E p \in W :
    /\ proc[p].pc = "g_ret"
    /\ LET res == Step_g_ret(proc[p], db)
       IN  /\ proc' = After(p, res.rec, FALSE)
           /\ db' = res.db
    /\ UNCHANGED <<reachable, age, expired, probe>>

Do_p_client(W) ==
  \E p \in W :
    /\ proc[p].pc = "p_client"
    /\ LET res == Step_p_client(proc[p], db, reachable)
       IN  /\ proc' = After(p, res.rec, FALSE)
           /\ db' = res.db
    /\ UNCHANGED <<reachable, age, expired, probe>>

Do_p_set(W) ==
  \E p \in W :
    /\ proc[p].pc = "p_set"
    /\ LET res   == Step_p_set(proc[p], db, reachable)
           wrote == res.rec.pc # "raised"
       IN  /\ proc' = After(p, res.rec, FALSE)
           /\ db' = res.db
           /\ age' = IF wrote THEN [age EXCEPT ![KeyOf(proc[p].request)] = 0]
                     ELSE age
    /\ UNCHANGED <<reachable, expired, probe>>

Do_s_client(W) ==
  \E p \in W :
    /\ proc[p].pc = "s_client"
    /\ LET res == Step_s_client(proc[p], db, reachable)
       IN  /\ proc' = After(p, res.rec, FALSE)
           /\ db' = res.db
    /\ UNCHANGED <<reachable, age, expired, probe>>

Do_s_get(W) ==
  \E p \in W :
    /\ proc[p].pc = "s_get"
    /\ LET res == Step_s_get(proc[p], db, reachable)
       IN  /\ proc' = After(p, res.rec, FALSE)
           /\ db' = res.db
    /\ UNCHANGED <<reachable, age, expired, probe>>

Do_s_set(W) ==
  \E p \in W :
    /\ proc[p].pc = "s_set"
    /\ LET res   == Step_s_set(proc[p], db, reachable)
           wrote == res.rec.pc # "raised"
       IN  /\ proc' = After(p, res.rec, FALSE)
           /\ db' = res.db
           /\ age' = IF wrote THEN [age EXCEPT ![KeyOf(proc[p].request)] = 0]
                     ELSE age
    /\ UNCHANGED <<reachable, expired, probe>>

\* TimeUnit seconds pass; the store removes the keys whose TTL is used up.
\* track tells whether the history keeps the token that expires.
Tick(track) ==
  /\ db' = Expire(db, TimeUnit)
  /\ age' = [k \in PingKeys |->
               IF age[k] < 0 THEN -1
               ELSE IF age[k] + TimeUnit >= PING_LIVE_TIME THEN PING_LIVE_TIME
               ELSE age[k] + TimeUnit]
  /\ expired' = IF track /\ HasToken(db) /\ ~HasToken(db')
                THEN Current(db) ELSE expired
  /\ proc' = IF HasToken(db) /\ ~HasToken(db')
             THEN [q \in Procs |-> Unquiet(proc[q])] ELSE proc
  /\ UNCHANGED <<reachable, probe>>

\* the redis DB becomes unavailable
StoreDown ==
  /\ reachable
  /\ reachable' = FALSE
  /\ proc' = [q \in Procs |-> Unquiet(proc[q])]
  /\ UNCHANGED <<db, age, expired, probe>>

\* the redis DB becomes available again
StoreUp ==
  /\ ~reachable
  /\ reachable' = TRUE
  /\ proc' = [q \in Procs |-> Unquiet(proc[q])]
  /\ UNCHANGED <<db, age, expired, probe>>

(***************************************************************************)
(* Spec: two workers serve calls of get_token, ping (which calls           *)
(* token_is_valid) and is_suspicious, while time passes and the redis DB   *)
(* goes away and comes back.  The probes come from one address, the        *)
(* requests to rate from another address of the same network with the same *)
(* headers.                                                                *)
(***************************************************************************)
SpecProbes == { r \in Requests : r.ip = "203.0.113.7" }

SpecRequests == { r \in Requests : r.ip = "203.0.113.9" }

\* tokens a client may put into the URL /client<token>.css
SpecTokens == { Draw(1), Fallback }

Next ==
  \/ Begin_get_token(Pair)
  \/ Begin_ping(Pair, SpecProbes, SpecTokens)
  \/ Begin_is_suspicious(Pair, SpecRequests)
  \/ Do_g_client(Pair)
  \/ Do_g_get(Pair)
  \/ Do_g_set(Pair)
  \/ Do_g_ret(Pair)
  \/ Do_p_client(Pair)
  \/ Do_p_set(Pair)
  \/ Do_s_client(Pair)
  \/ Do_s_get(Pair)
  \/ Do_s_set(Pair)
  \/ Tick(FALSE)
  \/ StoreDown
  \/ StoreUp

Spec == Init /\ [][Next]_vars

(***************************************************************************)
(* SpecToken: two workers serve calls of get_token and token_is_valid,     *)
(* with every candidate token.                                             *)
(***************************************************************************)
NextToken ==
  \/ Begin_get_token(Pair)
  \/ Begin_token_is_valid(Pair, CandidateTokens)
  \/ Do_g_client(Pair)
  \/ Do_g_get(Pair)
  \/ Do_g_set(Pair)
  \/ Do_g_ret(Pair)
  \/ Tick(TRUE)
  \/ StoreDown
  \/ StoreUp

SpecToken == Init /\ [][NextToken]_vars

(***************************************************************************)
(* SpecRace: NumProcs workers serve get_token calls at the same time, the  *)
(* redis DB being available.                                               *)
(***************************************************************************)
InitRace == Init /\ reachable

NextRace ==
  \/ Begin_get_token(Procs)
  \/ Do_g_client(Procs)
  \/ Do_g_get(Procs)
  \/ Do_g_set(Procs)
  \/ Do_g_ret(Procs)
  \/ Tick(FALSE)

SpecRace == InitRace /\ [][NextRace]_vars

(***************************************************************************)
(* SpecPing: two workers serve calls of ping and is_suspicious for two     *)
(* fingerprints, the redis DB being available.                             *)
(***************************************************************************)
PingProbes == { r \in Requests : r.ip # "203.0.113.9" }

PingRequests == { r \in Requests : r.ip # "203.0.113.7" }

PingTokens == { Draw(1) }

NextPing ==
  \/ Begin_ping(Pair, PingProbes, PingTokens)
  \/ Begin_is_suspicious(Pair, PingRequests)
  \/ Do_p_client(Pair)
  \/ Do_g_client(Pair)
  \/ Do_g_get(Pair)
  \/ Do_g_set(Pair)
  \/ Do_g_ret(Pair)
  \/ Do_p_set(Pair)
  \/ Do_s_client(Pair)
  \/ Do_s_get(Pair)
  \/ Do_s_set(Pair)
  \/ Tick(FALSE)

SpecPing == InitRace /\ [][NextPing]_vars

(***************************************************************************)
(* get_ping_key on its own: probe holds two calls a and b, each with a     *)
(* network and a request, and after the step Derive the keys ka and kb     *)
(* that get_ping_key returned for them.                                    *)
(***************************************************************************)
ProbeNetworks ==
  { [compressed |-> "203.0.113.0/24"], [compressed |-> "2001:db8::/48"] }

\* values of the Accept-Language and the User-Agent header
ProbeLanguages == {"", "en", "en-US"}

ProbeAgents == {"", "-US", "TestBot/1.0"}

\* the headers of a request: each of the two headers is sent or not
ProbeHeaders ==
  {NoHeaders}
    \cup { [n \in {"Accept-Language"} |-> l] : l \in ProbeLanguages }
    \cup { [n \in {"User-Agent"} |-> u] : u \in ProbeAgents }
    \cup { [n \in {"Accept-Language", "User-Agent"} |->
             IF n = "Accept-Language" THEN l ELSE u] :
           l \in ProbeLanguages, u \in ProbeAgents }

ProbeCalls ==
  [network : ProbeNetworks, request : [ip : {""}, headers : ProbeHeaders]]

InitKey ==
  /\ reachable = TRUE
  /\ db = [k \in Keys |-> Absent]
  /\ proc = [p \in Procs |-> IdleProc]
  /\ age = [k \in PingKeys |-> -1]
  /\ expired = << >>
  /\ probe \in [pc : {"args"}, a : ProbeCalls, b : ProbeCalls,
                ka : {""}, kb : {""}]

Derive ==
  /\ probe.pc = "args"
  /\ probe' = [probe EXCEPT
                 !.pc = "keys",
                 !.ka = get_ping_key(probe.a.network, probe.a.request),
                 !.kb = get_ping_key(probe.b.network, probe.b.request)]
  /\ UNCHANGED <<reachable, db, proc, age, expired>>

NextKey == Derive

SpecKey == InitKey /\ [][NextKey]_vars

(***************************************************************************)
(* Vocabulary of the properties.                                           *)
(***************************************************************************)
\* worker p takes a step of its call from position pc
Leaves(p, pc) == proc[p].pc = pc /\ proc'[p].pc # pc

\* worker p has returned from a call of op
Done(p, op) == proc[p].pc = "done" /\ proc[p].op = op

\* the characters of Alphabet
Characters == { Alphabet[j] : j \in 1..Len(Alphabet) }

\* token is a string of TokenLen characters of Alphabet
WellFormed(token) ==
  /\ Len(token) = TokenLen
  /\ \A i \in 1..Len(token) : token[i] \in Characters

\* token is the token stored in d
TokenIs(d, token) == HasToken(d) /\ Current(d) = token

\* worker p writes a ping record at line 115
WritesPing(p) == Leaves(p, "p_set") /\ proc'[p].pc = "done"

(***************************************************************************)
(* C1.  ping with the current token, then is_suspicious.                   *)
(***************************************************************************)
\* C1 as stated: when ping is called with the token that is stored, the
\* redis DB being available, and the same worker then calls is_suspicious
\* for the same network and headers, no token expiring and the redis DB
\* staying available from the start of ping on, is_suspicious returns False.
C1_ProbeThenTrusted ==
  \A p \in Pair : Done(p, "is_suspicious") /\ proc[p].quiet
                    => ~proc[p].suspicious

\* C1 amended: the same, provided no other call sets the token key between
\* the start of ping and its reading of the token; a get_token that found no
\* token before the ping started may still store its own.
C1_HeldProbeThenTrusted ==
  \A p \in Pair : Done(p, "is_suspicious") /\ proc[p].held
                    => ~proc[p].suspicious

C1_Witness ==
  \E p \in Pair : /\ Done(p, "is_suspicious")
                  /\ proc[p].held
                  /\ ~proc[p].suspicious
                  /\ \E k \in PingKeys : age[k] = 0

(***************************************************************************)
(* C2.  ping with an invalid token.                                        *)
(***************************************************************************)
\* C2: a ping called with a malformed token (one that is not 16 characters
\* of a-z0-9) creates no ping record.
C2_MalformedNeverRecords ==
  [][\A p \in Pair : WritesPing(p) => WellFormed(proc[p].token)]_vars

(***************************************************************************)
(* C3.  is_suspicious without a ping record.                               *)
(***************************************************************************)
\* C3: with the redis DB available, is_suspicious goes on to read the ping
\* key (line 84), and when that read finds no record it returns True,
\* whatever renew is.
C3_MissingPingIsSuspicious ==
  [][\A p \in Pair :
       /\ Leaves(p, "s_client") /\ reachable => proc'[p].pc = "s_get"
       /\ Leaves(p, "s_get") /\ reachable
            /\ ~HasPing(db, KeyOf(proc[p].request))
            => proc'[p].pc = "done" /\ proc'[p].suspicious]_vars

C3_Witness ==
  \E p \in Pair :
    /\ Done(p, "is_suspicious")
    /\ proc[p].suspicious
    /\ reachable
    /\ \A k \in PingKeys : age[k] < 0

(***************************************************************************)
(* C4.  No redis DB.                                                       *)
(***************************************************************************)
\* C4: a call that finds no redis DB (client() is None at line 145, 79 or
\* 103) returns there: get_token returns '12345678', is_suspicious returns
\* False, ping returns; and no step taken while the redis DB is unavailable
\* changes the store.
C4_Unreachable ==
  [][\A p \in Pair :
       /\ ~reachable =>
            /\ Leaves(p, "g_client")
                 => proc'[p].pc = "g_ret" /\ proc'[p].cur = Fallback
            /\ Leaves(p, "s_client")
                 => proc'[p].pc = "done" /\ ~proc'[p].suspicious
            /\ Leaves(p, "p_client") => proc'[p].pc = "done"
            /\ proc'[p].pc # proc[p].pc => db' = db
       /\ /\ Leaves(p, "g_ret")
          /\ proc[p].op = "get_token"
          /\ proc[p].cur = Fallback
          => proc'[p].pc = "done" /\ proc'[p].token_ret = Fallback]_vars

C4_Witness ==
  /\ ~reachable
  /\ \E p, q \in Pair :
       /\ Done(p, "get_token") /\ proc[p].token_ret = Fallback /\ proc[p].quiet
       /\ Done(q, "is_suspicious") /\ ~proc[q].suspicious

(***************************************************************************)
(* C5.  token_is_valid(get_token()).                                       *)
(***************************************************************************)
\* C5 as stated: when a worker passes the value get_token has just returned
\* to token_is_valid, no token expiring and the redis DB neither going away
\* nor coming back in between, token_is_valid returns True.
C5_FreshTokenAccepted ==
  \A p \in Pair : Done(p, "token_is_valid") /\ proc[p].quiet => proc[p].valid

\* C5 amended: token_is_valid returns True for the value get_token returned
\* when, from the moment get_token obtained the value at the store (its get
\* or its set took effect) to the reading of the token in token_is_valid, no
\* token expires, the redis DB neither goes away nor comes back and no other
\* call sets the token key.
C5_HeldTokenAccepted ==
  \A p \in Pair : Done(p, "token_is_valid") /\ proc[p].held => proc[p].valid

C5_Witness ==
  \E p \in Pair : /\ Done(p, "token_is_valid")
                  /\ proc[p].held
                  /\ proc[p].valid
                  /\ HasToken(db)

(***************************************************************************)
(* C6.  get_token twice.                                                   *)
(***************************************************************************)
\* C6 as stated: two calls of get_token return the same value when, since
\* the first of them returned, no token has expired (and the redis DB has
\* neither gone away nor come back).
C6_SameTokenTwice ==
  \A p, q \in Pair :
    /\ Done(p, "get_token") /\ proc[p].quiet
    /\ Done(q, "get_token") /\ proc[q].quiet
    => proc[p].token_ret = proc[q].token_ret

\* C6 amended: two calls of get_token return the same value when, since
\* each obtained its value at the store (its get or its set took effect), no
\* token has expired, the redis DB has neither gone away nor come back and
\* no other call has set the token key.
C6_HeldTokenTwice ==
  \A p, q \in Pair :
    /\ Done(p, "get_token") /\ proc[p].held
    /\ Done(q, "get_token") /\ proc[q].held
    => proc[p].token_ret = proc[q].token_ret

C6_Witness ==
  \E p, q \in Pair :
    /\ p # q
    /\ Done(p, "get_token") /\ proc[p].held
    /\ Done(q, "get_token") /\ proc[q].held
    /\ proc[p].token_ret = proc[q].token_ret
    /\ HasToken(db) /\ db[TOKEN_KEY].ttl < TOKEN_LIVE_TIME

(***************************************************************************)
(* C7.  Regeneration.                                                      *)
(***************************************************************************)
\* C7 as stated, the last part: the token that get_token stores differs
\* from the token that expired last.
C7_NewTokenDiffers ==
  [][\A p \in Pair :
       Leaves(p, "g_set") /\ proc'[p].pc # "raised" /\ expired # << >>
         => Current(db') # expired]_vars

\* C7 amended: with the redis DB available, a get_token that finds no token
\* stored (none was stored yet, or the TTL of the last has elapsed) generates
\* a token, stores it under the token key with a TTL of 600 s and returns
\* it; nothing keeps the token from being equal to the expired one.
C7_Regenerates ==
  [][\A p \in Pair :
       /\ Leaves(p, "g_get") /\ reachable /\ ~HasToken(db)
            => proc'[p].pc = "g_set" /\ proc'[p].cur \in RandomTokens
       /\ Leaves(p, "g_set") /\ reachable
            => /\ db'[TOKEN_KEY] = [present |-> TRUE,
                                    val |-> Encode(proc[p].cur),
                                    ttl |-> TOKEN_LIVE_TIME]
               /\ proc'[p].pc = "g_ret"
               /\ proc'[p].cur = proc[p].cur
       /\ Leaves(p, "g_ret") /\ proc[p].op = "get_token"
            => /\ proc'[p].pc = "done"
               /\ proc'[p].token_ret = proc[p].cur]_vars

C7_Witness ==
  \E p \in Pair :
    /\ Done(p, "get_token")
    /\ proc[p].held
    /\ expired # << >>
    /\ HasToken(db)
    /\ db[TOKEN_KEY].ttl = TOKEN_LIVE_TIME
    /\ proc[p].token_ret = Current(db)

(***************************************************************************)
(* C8.  Renewal.                                                           *)
(***************************************************************************)
\* C8: with the redis DB available, an is_suspicious with renew=True that
\* finds the ping record at line 84 goes on to line 89 and sets the record's
\* TTL to 3600 s there; no step of an is_suspicious with renew=False changes
\* the store.
C8_RenewResetsTTL ==
  [][\A p \in Pair :
       LET key == KeyOf(proc[p].request)
       IN  /\ Leaves(p, "s_get") /\ reachable /\ HasPing(db, key)
                /\ proc[p].renew
                => proc'[p].pc = "s_set"
           /\ Leaves(p, "s_set") /\ reachable
                => /\ HasPing(db', key)
                   /\ db'[key].ttl = PING_LIVE_TIME
                   /\ proc'[p].pc = "done"
           /\ proc[p].op = "is_suspicious" /\ ~proc[p].renew
                /\ proc'[p].pc # proc[p].pc
                => db' = db]_vars

C8_Witness ==
  \E p \in Pair :
    LET key == KeyOf(proc[p].request)
    IN  /\ proc[p].pc = "s_set"
        /\ reachable
        /\ HasPing(db, key)
        /\ db[key].ttl = PING_LIVE_TIME - TimeUnit
        /\ ENABLED (Next /\ Leaves(p, "s_set")
                         /\ db'[key].ttl = PING_LIVE_TIME)

(***************************************************************************)
(* C9.  Expiry of a ping record.                                           *)
(***************************************************************************)
\* in store d, with a the seconds since the last write of each ping key, a
\* ping record exists exactly while less than 3600 s have passed since the
\* last write of its key, its TTL being what is left of the 3600 s
C9_Lifetime(d, a) ==
  \A k \in PingKeys :
    /\ HasPing(d, k) <=> (a[k] >= 0 /\ a[k] < PING_LIVE_TIME)
    /\ HasPing(d, k) => d[k].ttl = PING_LIVE_TIME - a[k]

\* C9: after every step a ping record exists exactly while less than 3600 s
\* have passed since the last write of its key (by ping or by a renewal);
\* and with the redis DB available, an is_suspicious that reads a key whose
\* last write is 3600 s or more ago returns True.
C9_PingExpires ==
  [][/\ C9_Lifetime(db', age')
     /\ \A p \in Pair :
          Leaves(p, "s_get") /\ reachable
            /\ age[KeyOf(proc[p].request)] >= PING_LIVE_TIME
            => proc'[p].pc = "done" /\ proc'[p].suspicious]_vars

C9_Witness ==
  \E p \in Pair :
    /\ Done(p, "is_suspicious")
    /\ proc[p].suspicious
    /\ reachable
    /\ \E k \in PingKeys : age[k] = PING_LIVE_TIME

(***************************************************************************)
(* C10.  One current token.                                                *)
(***************************************************************************)
\* the token key holds nothing or one token of 16 characters of a-z0-9 with
\* a remaining TTL of at most 600 s
C10_OneToken(d) ==
  HasToken(d) =>
    /\ WellFormed(Current(d))
    /\ d[TOKEN_KEY].ttl \in 1..TOKEN_LIVE_TIME

\* token_is_valid returns True to worker p
C10_Accepts(p) ==
  /\ proc[p].op = "token_is_valid"
  /\ proc'[p].pc # proc[p].pc
  /\ proc'[p].pc = "done"
  /\ proc'[p].valid

\* the token that get_token is about to return to worker p is the one its
\* command found or left at the store, or '12345678' if line 145 found no
\* redis DB
C10_Obtains(p) ==
  /\ Leaves(p, "g_client") /\ proc'[p].pc = "g_ret"
       => ~reachable /\ proc'[p].cur = Fallback
  /\ Leaves(p, "g_get") /\ proc'[p].pc = "g_ret" => TokenIs(db, proc'[p].cur)
  /\ Leaves(p, "g_set") /\ proc'[p].pc = "g_ret" => TokenIs(db', proc'[p].cur)

\* C10 as stated: after every step the token key holds at most one
\* well-formed token with a TTL of at most 600 s, and when token_is_valid
\* accepts a candidate, the candidate is the token stored at that moment.
C10_OnlyStoredTokenAccepted ==
  [][/\ C10_OneToken(db')
     /\ \A p \in Pair :
          C10_Accepts(p)
            => HasToken(db') /\ proc[p].token = Current(db')]_vars

\* C10 amended: after every step the token key holds at most one
\* well-formed token with a TTL of at most 600 s, and when token_is_valid
\* accepts a candidate, the candidate is the token that its get found stored
\* or that its set stored, or it is '12345678' and token_is_valid found no
\* redis DB at line 145.
C10_StoredTokenOrFallbackAccepted ==
  [][/\ C10_OneToken(db')
     /\ \A p \in Pair :
          /\ C10_Obtains(p)
          /\ C10_Accepts(p)
               => proc[p].pc = "g_ret" /\ proc[p].token = proc[p].cur]_vars

C10_Witness ==
  \E p, q \in Pair :
    /\ Done(p, "token_is_valid") /\ proc[p].valid
    /\ Done(q, "token_is_valid") /\ ~proc[q].valid
    /\ HasToken(db)
    /\ reachable

(***************************************************************************)
(* C11.  get_token calls that race on an absent or expired token.          *)
(***************************************************************************)
\* worker p is inside a get_token call
C11_Running(p) == proc[p].op = "get_token" /\ ~Free(p)

\* worker p returns from get_token in this step
C11_Returns(p) == C11_Running(p) /\ proc'[p].pc = "done"

\* worker p executes the set of line 155 in this step
C11_Writes(p) == C11_Running(p) /\ Leaves(p, "g_set") /\ proc'[p].pc = "g_ret"

\* worker p executes the get of line 150 in this step and finds a token
C11_Reads(p) == C11_Running(p) /\ Leaves(p, "g_get") /\ proc'[p].pc = "g_ret"

C11_Rank(pc) ==
  CASE pc = "g_client" -> 1
    [] pc = "g_get"    -> 2
    [] pc = "g_set"    -> 3
    [] pc = "g_ret"    -> 4
    [] OTHER           -> 5

\* a call under way can always take its next step
C11_NoDeadlock ==
  \A p \in Procs :
    C11_Running(p) => ENABLED (NextRace /\ proc'[p].pc # proc[p].pc)

\* C11: racing get_token calls never block and end within four steps; the
\* value a call returns is the stored token at the moment its get or its set
\* took effect; every set replaces the stored token with the writer's value
\* for 600 s, and nothing but such a set or expiry changes the stored token,
\* so the store holds the value of the last writer
C11_LastWriteWins ==
  /\ []C11_NoDeadlock
  /\ [][\A p \in Procs :
          C11_Running(p) /\ proc'[p].pc # proc[p].pc
            => C11_Rank(proc'[p].pc) > C11_Rank(proc[p].pc)]_vars
  /\ [][\A p \in Procs :
          C11_Returns(p)
            => proc[p].pc = "g_ret" /\ proc'[p].token_ret = proc[p].cur]_vars
  /\ [][\A p \in Procs :
          C11_Reads(p) => TokenIs(db, proc'[p].cur)]_vars
  /\ [][\A p \in Procs :
          C11_Writes(p)
            => /\ TokenIs(db', proc[p].cur)
               /\ proc'[p].cur = proc[p].cur
               /\ db'[TOKEN_KEY].ttl = TOKEN_LIVE_TIME]_vars
  /\ [][db'[TOKEN_KEY] # db[TOKEN_KEY]
          => \/ \E p \in Procs : C11_Writes(p)
             \/ /\ \A p \in Procs : proc'[p].pc = proc[p].pc
                /\ db' = Expire(db, TimeUnit)]_vars

\* two calls raced: both generated and returned a value of their own, and the
\* store holds the value of the one that wrote last
C11_Witness ==
  \E p, q \in Procs :
    /\ p # q
    /\ Done(p, "get_token") /\ ~proc[p].held
    /\ Done(q, "get_token") /\ proc[q].held
    /\ proc[p].token_ret \in RandomTokens
    /\ proc[q].token_ret \in RandomTokens
    /\ proc[p].token_ret # proc[q].token_ret
    /\ TokenIs(db, proc[q].token_ret)
    /\ db[TOKEN_KEY].ttl = TOKEN_LIVE_TIME

(***************************************************************************)
(* C12.  Errors.                                                           *)
(***************************************************************************)
\* C12: no call of is_suspicious or ping ends by raising, in whatever state
\* the store is and also when the availability of the redis DB changes
\* between the steps of the call.
C12_NoErrorSurfaces ==
  \A p \in Pair :
    proc[p].op \in {"is_suspicious", "ping"} => proc[p].pc # "raised"

(***************************************************************************)
(* C13: get_ping_key is deterministic and, the hash being injective, tells *)
(* apart the triples of network, Accept-Language and User-Agent.           *)
(***************************************************************************)
\* the triple a call is made with, an absent header counting as ''
C13_Triple(call) ==
  <<call.network.compressed,
    IF "Accept-Language" \in DOMAIN call.request.headers
    THEN call.request.headers["Accept-Language"] ELSE "",
    IF "User-Agent" \in DOMAIN call.request.headers
    THEN call.request.headers["User-Agent"] ELSE "">>

\* the three parts of a triple written one after the other
C13_Joined(t) == t[1] \o t[2] \o t[3]

C13_Derived == probe.pc = "keys"

\* C13 (amended): identical triples yield identical keys, and two calls get
\* the same key exactly when their triples, written one after the other
\* without separators, give the same string
C13_KeysSeparateJoinedTriples ==
  C13_Derived
    => /\ C13_Triple(probe.a) = C13_Triple(probe.b) => probe.ka = probe.kb
       /\ probe.ka = probe.kb
            <=> C13_Joined(C13_Triple(probe.a)) = C13_Joined(C13_Triple(probe.b))

\* C13 as claimed: identical triples yield identical keys and distinct triples
\* yield distinct keys
C13_KeysSeparateTriples ==
  C13_Derived
    => (probe.ka = probe.kb <=> C13_Triple(probe.a) = C13_Triple(probe.b))

\* two calls whose triples differ in both headers got the same key
C13_Witness ==
  /\ C13_Derived
  /\ C13_Triple(probe.a)[1] = C13_Triple(probe.b)[1]
  /\ C13_Triple(probe.a)[2] # C13_Triple(probe.b)[2]
  /\ C13_Triple(probe.a)[3] # C13_Triple(probe.b)[3]
  /\ probe.ka = probe.kb

(***************************************************************************)
(* C14.  Side effects of get_token and token_is_valid.                     *)
(***************************************************************************)
\* worker p takes a step of get_token (called from outside, by
\* token_is_valid, or by the token_is_valid of a ping)
C14_Steps(p) ==
  /\ proc[p].pc \in {"g_client", "g_get", "g_set", "g_ret"}
  /\ proc'[p].pc # proc[p].pc

\* a step of get_token changes nothing but the token key
C14_OnlyTokenKey(p) ==
  C14_Steps(p) => \A k \in PingKeys : db'[k] = db[k]

\* a ping record that has not expired keeps its effect on is_suspicious,
\* whatever token is stored
C14_PingEffective(p) ==
  Leaves(p, "s_get") /\ reachable /\ HasPing(db, KeyOf(proc[p].request))
    => proc'[p].pc \in {"done", "s_set"} /\ ~proc'[p].suspicious

\* C14 as stated: get_token and token_is_valid write only the token key, and
\* only when no token that has not expired is stored; they leave every ping
\* record as it is, and a ping record keeps its effect when the token is
\* replaced.
C14_OnlyLazyRegeneration ==
  [][\A p \in Pair :
       /\ C14_OnlyTokenKey(p)
       /\ C14_PingEffective(p)
       /\ C14_Steps(p) /\ db'[TOKEN_KEY] # db[TOKEN_KEY] => ~HasToken(db)]_vars

\* C14 amended: the same, except that the token key is written when the
\* call found no token stored at line 150; by line 155 another call may have
\* stored one, which the write replaces.
C14_RegenerationAfterMiss ==
  [][\A p \in Pair :
       /\ C14_OnlyTokenKey(p)
       /\ C14_PingEffective(p)
       /\ C14_Steps(p) /\ db'[TOKEN_KEY] # db[TOKEN_KEY]
            => proc[p].pc = "g_set"
       /\ Leaves(p, "g_get") /\ proc'[p].pc = "g_set" => ~HasToken(db)]_vars

\* get_token has just stored a new token while a ping record written under
\* an earlier token is still there
C14_Witness ==
  \E p \in Pair :
    /\ Done(p, "get_token")
    /\ proc[p].held
    /\ TokenIs(db, proc[p].token_ret)
    /\ db[TOKEN_KEY].ttl = TOKEN_LIVE_TIME
    /\ \E k \in PingKeys : HasPing(db, k) /\ age[k] >= TOKEN_LIVE_TIME

(***************************************************************************)
(* C15.  is_suspicious never creates a ping record.                        *)
(***************************************************************************)
\* worker p executes the set of line 89 in this step
C15_Renews(p) == Leaves(p, "s_set") /\ proc'[p].pc = "done"

\* C15: whenever is_suspicious writes a ping key, under any interleaving
\* with expiry and other calls, the key holds a record that has not expired
\* at the moment of the write, so the write only extends an existing record.
C15_RenewalOnlyExtends ==
  [][\A p \in Pair :
       C15_Renews(p) => HasPing(db, KeyOf(proc[p].request))]_vars

(***************************************************************************)
(* C16.  The token of a ping at its write.                                 *)
(***************************************************************************)
\* C16: whenever ping writes a ping record, under any interleaving with
\* token expiry and get_token calls between its validation and its write,
\* the token it was given is the token stored under the token key at that
\* moment.
C16_TokenCurrentAtWrite ==
  [][\A p \in Pair : WritesPing(p) => TokenIs(db, proc[p].token)]_vars

(***************************************************************************)
(* C17.  The fallback constant.                                            *)
(***************************************************************************)
\* C17: in every sequence of steps, the redis DB going away and coming back
\* between them included, no ping record is written by a ping that was given
\* the fallback constant '12345678'.
C17_FallbackNeverAuthorises ==
  [][\A p \in Pair : WritesPing(p) => proc[p].token # Fallback]_vars

(***************************************************************************)
(* C18.  Isolation of fingerprints.                                        *)
(***************************************************************************)
\* worker p takes a step of a call of ping or is_suspicious
C18_Steps(p) ==
  proc[p].op \in {"ping", "is_suspicious"} /\ ~Free(p)
    /\ proc'[p].pc # proc[p].pc

\* C18: no step of a ping or is_suspicious call changes a ping key other
\* than the one derived from its request; no step of an is_suspicious call
\* changes the token key, and is_suspicious never enters get_token, where
\* the token key is read.
C18_FingerprintsIsolated ==
  [][\A p \in Pair :
       C18_Steps(p) =>
         /\ \A k \in PingKeys \ {KeyOf(proc[p].request)} : db'[k] = db[k]
         /\ proc[p].op = "is_suspicious"
              => /\ db'[TOKEN_KEY] = db[TOKEN_KEY]
                 /\ proc'[p].pc \notin
                      {"g_client", "g_get", "g_set", "g_ret"}]_vars

\* is_suspicious is about to renew the record of one fingerprint, which it
\* can, while the record of another, younger, is there and stays as it is
C18_Witness ==
  \E p \in Pair :
    LET key == KeyOf(proc[p].request)
    IN  /\ proc[p].pc = "s_set"
        /\ HasPing(db, key)
        /\ db[key].ttl < PING_LIVE_TIME
        /\ \E k \in PingKeys \ {key} :
             /\ HasPing(db, k)
             /\ age[k] < age[key]
             /\ ENABLED (Next /\ Leaves(p, "s_set")
                              /\ db'[key].ttl = PING_LIVE_TIME
                              /\ db'[k] = db[k])

====
